---- MODULE Spec2Model ----
(***************************************************************************)
(* Model of the two conversion scripts of Chonkie.Net:                     *)
(*   scripts/convert_neural_models.py  (main, convert_all_defaults,        *)
(*                                      convert_model_to_onnx,             *)
(*                                      _export_onnx_manual)               *)
(*   scripts/convert_model.py          (convert_model and its file check)  *)
(* Python strings that the code inspects (endswith, split, replace, Path)  *)
(* are sequences of one-character strings; file names, which the code only *)
(* compares, are TLA+ strings.                                             *)
(***************************************************************************)
EXTENDS Integers, Sequences, FiniteSets, TLC

VARIABLES
    script,                 \* which script runs: "convert_neural_models" | "convert_model"
    args,                   \* the parsed command line
    model_name,             \* parameter/local model_name
    output_dir,             \* parameter/local output_dir (None until resolved)
    use_optimum,            \* parameter of convert_model_to_onnx
    quantize,               \* parameter of convert_model_to_onnx
    ort_available,          \* ORTModelForTokenClassification is not None (import succeeded)
    pc,                     \* position in the running script
    fs,                     \* the file system: directory |-> (file name |-> content)
    fs0,                    \* the file system when the process started
    stages,                 \* stages of the current run entered so far, in order
    log,                    \* collaborator calls of the current run, with their outcome
    failed,                 \* the stage whose `return False` ended the current run
    result,                 \* what convert_model_to_onnx gave its caller
    exit_code,              \* the process exit status
    idx,                    \* position of convert_all_defaults in DEFAULT_MODELS
    calls,                  \* requests convert_all_defaults passed to the pipeline
    results,                \* what each of those runs gave back
    all_essential_present,  \* locals of the file check of convert_model
    vocab_file_present,
    found_vocab_files,
    tokenizer_type,
    written,                \* history: files the current run finished writing, with their content
    seen,                   \* history: <<result, failed>> of every run that went back to its caller
    choices,                \* history: the outcome each collaborator call of the current run had
    first                   \* the finished first run of a pair of runs compared with each other

vars == << script, args, model_name, output_dir, use_optimum, quantize,
           ort_available, pc, fs, fs0, stages, log, failed, result, exit_code,
           idx, calls, results, all_essential_present, vocab_file_present,
           found_vocab_files, tokenizer_type, written, seen, choices, first >>

-----------------------------------------------------------------------------
(* Strings *)

N_distilbert == <<"d", "i", "s", "t", "i", "l", "b", "e", "r", "t">>
N_modernbert_base == <<"m", "o", "d", "e", "r", "n", "b", "e", "r", "t", "-", "b", "a", "s", "e">>
N_modernbert_large == <<"m", "o", "d", "e", "r", "n", "b", "e", "r", "t", "-", "l", "a", "r", "g", "e">>
ID_distilbert == <<"m", "i", "r", "t", "h", "/", "c", "h", "o", "n", "k", "y", "_", "d", "i", "s", "t", "i", "l", "b", "e", "r", "t", "_", "b", "a", "s", "e", "_", "u", "n", "c", "a", "s", "e", "d", "_", "1">>
ID_modernbert_base == <<"m", "i", "r", "t", "h", "/", "c", "h", "o", "n", "k", "y", "_", "m", "o", "d", "e", "r", "n", "b", "e", "r", "t", "_", "b", "a", "s", "e", "_", "1">>
ID_modernbert_large == <<"m", "i", "r", "t", "h", "/", "c", "h", "o", "n", "k", "y", "_", "m", "o", "d", "e", "r", "n", "b", "e", "r", "t", "_", "l", "a", "r", "g", "e", "_", "1">>
ModelsPrefix == <<".", "/", "m", "o", "d", "e", "l", "s", "/">>
ModelsBase == <<".", "/", "m", "o", "d", "e", "l", "s">>

\* Model identifiers a user can pass that are not registry identifiers.
M_suffix_large == <<"m", "y", "/", "m", "o", "d", "e", "r", "n", "b", "e", "r", "t", "-", "l", "a", "r", "g", "e">>
M_suffix_distil == <<"x", "/", "m", "y", "-", "d", "i", "s", "t", "i", "l", "b", "e", "r", "t">>
M_other == <<"o", "r", "g", "/", "b", "e", "r", "t">>
M_plain == <<"b", "e", "r", "t">>
O_out == <<".", "/", "o", "u", "t">>

\* Optional[str]
None == [some |-> FALSE, v |-> <<>>]
Some(s) == [some |-> TRUE, v |-> s]

\* Python truthiness of an Optional[str]: None and "" are falsy.
Truthy(o) == o.some /\ o.v # <<>>

\* s.endswith(t)
EndsWith(s, t) ==
    /\ Len(t) <= Len(s)
    /\ SubSeq(s, Len(s) - Len(t) + 1, Len(s)) = t

\* Index of the last "/" of s, 0 when there is none.
RECURSIVE LastSlash(_, _)
LastSlash(s, i) ==
    IF i = 0 THEN 0
    ELSE IF s[i] = "/" THEN i
    ELSE LastSlash(s, i - 1)

\* s.split("/")[-1]
LastSegment(s) == SubSeq(s, LastSlash(s, Len(s)) + 1, Len(s))

\* s.replace("/", "_")
ReplaceSlash(s) == [i \in 1..Len(s) |-> IF s[i] = "/" THEN "_" ELSE s[i]]

\* s.split("/") as a sequence of components
RECURSIVE SplitSlash(_, _, _)
SplitSlash(s, i, cur) ==
    IF i > Len(s) THEN << cur >>
    ELSE IF s[i] = "/" THEN << cur >> \o SplitSlash(s, i + 1, <<>>)
    ELSE SplitSlash(s, i + 1, Append(cur, s[i]))

\* "/".join(parts[i:])
RECURSIVE JoinSlash(_, _)
JoinSlash(parts, i) ==
    IF i > Len(parts) THEN <<>>
    ELSE IF i = Len(parts) THEN parts[i]
    ELSE parts[i] \o <<"/">> \o JoinSlash(parts, i + 1)

\* The components pathlib keeps.
KeptPart(p) == p # <<>> /\ p # <<".">>

DropDots(parts) == SelectSeq(parts, KeptPart)

\* str(Path(s)): pathlib drops empty and "." components, keeps a leading "/",
\* and renders the empty path as ".".
PathStr(s) ==
    LET kept == JoinSlash(DropDots(SplitSlash(s, 1, <<>>)), 1)
        root == IF Len(s) > 0 /\ s[1] = "/" THEN <<"/">> ELSE <<>>
    IN  IF root \o kept = <<>> THEN <<".">> ELSE root \o kept

\* str(Path(base) / name)
PathJoin(base, name) == PathStr(base \o <<"/">> \o name)

-----------------------------------------------------------------------------
(* Tables *)

\* DEFAULT_MODELS, in insertion order (dicts iterate in insertion order).
DEFAULT_MODELS ==
    << << N_distilbert, ID_distilbert >>,
       << N_modernbert_base, ID_modernbert_base >>,
       << N_modernbert_large, ID_modernbert_large >> >>

MODEL_STRIDES ==
    << << ID_distilbert, 256 >>,
       << ID_modernbert_base, 512 >>,
       << ID_modernbert_large, 512 >> >>

DefaultStride == 256

\* table.get(key, default) for a table given as a sequence of <<key, value>>
RECURSIVE DictGet(_, _, _)
DictGet(table, key, default) ==
    IF table = <<>> THEN default
    ELSE IF table[1][1] = key THEN table[1][2]
    ELSE DictGet(Tail(table), key, default)

\* Variant that ignores the table.
StrideOf_AlwaysDefault(m) == DefaultStride

\* MODEL_STRIDES.get(model_name, 256)
StrideOf(m) == DictGet(MODEL_STRIDES, m, DefaultStride)

-----------------------------------------------------------------------------
(* File system *)

Content(kind, data) == [kind |-> kind, data |-> data]

NoFiles == [f \in {} |-> Content("old", <<>>)]

\* Path.mkdir(parents=True, exist_ok=True): an existing directory is kept as it is.
MkDir(fsv, d) ==
    [x \in DOMAIN fsv \cup {d} |-> IF x \in DOMAIN fsv THEN fsv[x] ELSE NoFiles]

\* open(path, "w") + write, or a library call that creates or replaces the files.
WriteFiles(fsv, d, names, c) ==
    [fsv EXCEPT ![d] =
        [f \in DOMAIN fsv[d] \cup names |-> IF f \in names THEN c ELSE fsv[d][f]]]

\* History of outcomes: no call made yet; call k had outcome v.
NoChoices == [k \in {} |-> TRUE]

Chose(c, k, v) == [x \in DOMAIN c \cup {k} |-> IF x = k THEN v ELSE c[x]]

\* No first run to compare with.
NoFirst ==
    [done |-> FALSE, stages |-> <<>>, log |-> <<>>, result |-> "none",
     written |-> NoFiles, files |-> NoFiles, choices |-> NoChoices]

\* History of finished writes: names now hold c, the other entries stay.
Finished(w, names, c) ==
    [f \in DOMAIN w \cup names |-> IF f \in names THEN c ELSE w[f]]

Files(fsv, d) == IF d \in DOMAIN fsv THEN DOMAIN fsv[d] ELSE {}

\* What ORTModel.save_pretrained puts in the directory.
OptimumFiles == {"model.onnx", "config.json"}

\* What tokenizer.save_pretrained puts in the directory, by kind of tokenizer.
TokenizerFileSets ==
    { {"tokenizer_config.json", "special_tokens_map.json", "vocab.txt", "tokenizer.json"},
      {"tokenizer_config.json", "special_tokens_map.json", "vocab.json", "merges.txt"},
      {"tokenizer_config.json", "special_tokens_map.json", "tokenizer.json"} }

\* A directory left by an earlier conversion.
EarlierRun ==
    [f \in {"model.onnx", "config.json", "tokenizer_config.json", "vocab.txt",
            "metadata.json"} |-> Content("old", <<>>)]

-----------------------------------------------------------------------------
(* Inputs *)

ModelIds ==
    { ID_distilbert, ID_modernbert_base, ID_modernbert_large,
      M_suffix_large, M_suffix_distil, M_other, M_plain }

\* --output absent, given as the empty string, given as a path
OutputArgs == { None, Some(<<>>), Some(O_out) }

Args(model, output, no_optimum, q, all, list_models) ==
    [model |-> model, output |-> output, no_optimum |-> no_optimum,
     quantize |-> q, all |-> all, list_models |-> list_models]

\* Command lines of convert_neural_models.py that convert at most one model:
\* --model [--output] [--no-optimum] [--quantize], --list-models, or nothing
NeuralArgs ==
    { Args(Some(m), o, n, q, FALSE, FALSE) :
        m \in ModelIds, o \in OutputArgs, n \in BOOLEAN, q \in BOOLEAN }
    \cup { Args(None, None, FALSE, FALSE, FALSE, TRUE),
           Args(None, None, FALSE, FALSE, FALSE, FALSE) }

\* convert_neural_models.py --all
AllArgs == { Args(None, None, FALSE, FALSE, TRUE, FALSE) }

\* Command lines of convert_model.py: <model_name> [output_dir]
ModelArgs ==
    { Args(Some(m), o, FALSE, FALSE, FALSE, FALSE) : m \in ModelIds, o \in OutputArgs }

\* Directories a run of either script can resolve to.
KnownDirs ==
    { PathStr(ModelsPrefix \o DEFAULT_MODELS[i][1]) : i \in 1..Len(DEFAULT_MODELS) }
    \cup { PathStr(ModelsPrefix \o LastSegment(m)) : m \in ModelIds }
    \cup { PathStr(ModelsPrefix \o ReplaceSlash(m)) : m \in ModelIds }
    \cup { PathStr(O_out), PathStr(<<>>) }

\* The disk before the process starts: no output directory yet, or every
\* directory holds the files of an earlier conversion.
InitialDisks ==
    { [d \in {} |-> NoFiles], [d \in KnownDirs |-> EarlierRun] }

-----------------------------------------------------------------------------
(* State *)

cmLocals == << all_essential_present, vocab_file_present, found_vocab_files,
               tokenizer_type >>
batchVars == << idx, calls, results >>
params == << model_name, output_dir, use_optimum, quantize >>
process == << script, args, ort_available, fs0 >>

InitCommon ==
    /\ model_name = <<>>
    /\ output_dir = None
    /\ use_optimum = TRUE
    /\ quantize = FALSE
    /\ fs0 = fs
    /\ stages = <<>>
    /\ log = <<>>
    /\ failed = "none"
    /\ result = "none"
    /\ exit_code = -1
    /\ idx = 0
    /\ calls = <<>>
    /\ results = <<>>
    /\ all_essential_present = TRUE
    /\ vocab_file_present = FALSE
    /\ found_vocab_files = <<>>
    /\ tokenizer_type = "unset"
    /\ written = NoFiles
    /\ seen = {}
    /\ choices = NoChoices
    /\ first = NoFirst

InitNeural ==
    /\ script = "convert_neural_models"
    /\ args \in NeuralArgs
    /\ ort_available \in BOOLEAN
    /\ pc = "main"
    /\ fs \in InitialDisks
    /\ InitCommon

InitModel ==
    /\ script = "convert_model"
    /\ args \in ModelArgs
    /\ ort_available = TRUE
    /\ pc = "cm_main"
    /\ fs \in InitialDisks
    /\ InitCommon

Init == InitNeural \/ InitModel

\* The batch starts on a disk without output directories.
InitAll ==
    /\ script = "convert_neural_models"
    /\ args \in AllArgs
    /\ ort_available \in BOOLEAN
    /\ pc = "main"
    /\ fs = [d \in {} |-> NoFiles]
    /\ InitCommon

\* output_path = Path(output_dir)
OutputPath == PathStr(output_dir.v)

Event(ev, ok) == [ev |-> ev, ok |-> ok]

\* return False at the end of a stage
ReturnFalse(stage) ==
    /\ failed' = stage
    /\ result' = "False"
    /\ pc' = "return"

-----------------------------------------------------------------------------
(* convert_neural_models.py: main *)

\* Variant of the loop that only compares identifiers (no endswith).
RECURSIVE ScanDefaults_EqualOnly(_, _, _)
ScanDefaults_EqualOnly(m, i, o) ==
    IF i > Len(DEFAULT_MODELS) THEN o
    ELSE IF DEFAULT_MODELS[i][2] = m
         THEN Some(ModelsPrefix \o DEFAULT_MODELS[i][1])
    ELSE ScanDefaults_EqualOnly(m, i + 1, o)

\* The for/break loop over DEFAULT_MODELS that picks ./models/<name>.
RECURSIVE ScanDefaults(_, _, _)
ScanDefaults(m, i, o) ==
    IF i > Len(DEFAULT_MODELS) THEN o
    ELSE IF DEFAULT_MODELS[i][2] = m \/ EndsWith(m, DEFAULT_MODELS[i][1])
         THEN Some(ModelsPrefix \o DEFAULT_MODELS[i][1])
    ELSE ScanDefaults(m, i + 1, o)

\* Auto-detection of the output directory.
ResolveOutput(m, o) ==
    IF Truthy(o) THEN o
    ELSE LET found == ScanDefaults(m, 1, o)
         IN  IF Truthy(found) THEN found
             ELSE Some(ModelsPrefix \o LastSegment(m))

EnterRun ==
    /\ stages' = <<>>
    /\ log' = <<>>
    /\ failed' = "none"
    /\ result' = "none"
    /\ written' = NoFiles
    /\ choices' = NoChoices
    /\ pc' = "mkdir"

MainListModels ==
    /\ pc = "main"
    /\ args.list_models
    /\ pc' = "exit"
    /\ exit_code' = 0
    /\ UNCHANGED << process, first, choices, written, seen, params, fs, stages, log, failed, result, batchVars, cmLocals >>

MainAll ==
    /\ pc = "main"
    /\ ~args.list_models
    /\ args.all
    /\ pc' = "all_loop"
    /\ idx' = 1
    /\ UNCHANGED << process, first, choices, written, seen, params, fs, stages, log, failed, result, exit_code,
                    calls, results, cmLocals >>

MainNoModel ==
    /\ pc = "main"
    /\ ~args.list_models
    /\ ~args.all
    /\ ~Truthy(args.model)
    /\ pc' = "exit"
    /\ exit_code' = 1
    /\ UNCHANGED << process, first, choices, written, seen, params, fs, stages, log, failed, result, batchVars, cmLocals >>

MainConvert ==
    /\ pc = "main"
    /\ ~args.list_models
    /\ ~args.all
    /\ Truthy(args.model)
    /\ model_name' = args.model.v
    /\ output_dir' = ResolveOutput(args.model.v, args.output)
    /\ use_optimum' = ~args.no_optimum
    /\ quantize' = args.quantize
    /\ EnterRun
    /\ UNCHANGED << process, first, seen, fs, exit_code, batchVars, cmLocals >>

\* sys.exit(0 if success else 1); an exception that left the run ends the
\* process with a traceback and status 1.
MainExit ==
    /\ pc = "return"
    /\ script = "convert_neural_models"
    /\ ~args.all
    /\ pc' = "exit"
    /\ exit_code' = IF result = "True" THEN 0 ELSE 1
    /\ seen' = seen \cup {<< result, failed >>}
    /\ UNCHANGED << process, first, choices, written, params, fs, stages, log, failed, result, batchVars, cmLocals >>

-----------------------------------------------------------------------------
(* convert_neural_models.py: convert_all_defaults *)

AllCall ==
    /\ pc = "all_loop"
    /\ idx <= Len(DEFAULT_MODELS)
    /\ model_name' = DEFAULT_MODELS[idx][2]
    /\ output_dir' = Some(PathJoin(PathStr(ModelsBase), DEFAULT_MODELS[idx][1]))
    /\ use_optimum' = TRUE
    /\ quantize' = FALSE
    /\ calls' = Append(calls, << model_name', output_dir'.v, use_optimum', quantize' >>)
    /\ EnterRun
    /\ UNCHANGED << process, first, seen, fs, exit_code, idx, results, cmLocals >>

\* Variant of the loop that stops at the first run that does not succeed.
AllNext_AbortOnFailure ==
    /\ pc = "return"
    /\ script = "convert_neural_models"
    /\ args.all
    /\ results' = Append(results, result)
    /\ seen' = seen \cup {<< result, failed >>}
    /\ idx' = idx + 1
    /\ IF result = "True"
       THEN pc' = "all_loop" /\ UNCHANGED exit_code
       ELSE pc' = "exit" /\ exit_code' = 1
    /\ UNCHANGED << process, first, choices, written, params, fs, stages, log, failed, result, calls, cmLocals >>

\* A False result is logged as a warning, an exception as an error; either
\* way the loop goes on.
AllNext ==
    /\ pc = "return"
    /\ script = "convert_neural_models"
    /\ args.all
    /\ results' = Append(results, result)
    /\ seen' = seen \cup {<< result, failed >>}
    /\ idx' = idx + 1
    /\ pc' = "all_loop"
    /\ UNCHANGED << process, first, choices, written, params, fs, stages, log, failed, result, exit_code,
                    calls, cmLocals >>

AllDone ==
    /\ pc = "all_loop"
    /\ idx > Len(DEFAULT_MODELS)
    /\ pc' = "exit"
    /\ exit_code' = 0
    /\ UNCHANGED << process, first, choices, written, seen, params, fs, stages, log, failed, result, batchVars, cmLocals >>

-----------------------------------------------------------------------------
(* convert_neural_models.py: convert_model_to_onnx *)

\* output_path.mkdir(parents=True, exist_ok=True) is outside every try block:
\* when it raises, the exception leaves convert_model_to_onnx.
MakeOutputDir ==
    /\ pc = "mkdir"
    /\ \E ok \in BOOLEAN :
        /\ choices' = Chose(choices, "mkdir", ok)
        /\ IF ok
           THEN /\ fs' = MkDir(fs, OutputPath)
                /\ pc' = "load_config"
                /\ UNCHANGED result
           ELSE /\ result' = "raised"
                /\ pc' = "return"
                /\ UNCHANGED fs
    /\ UNCHANGED << process, first, written, seen, params, stages, log, failed, exit_code, batchVars, cmLocals >>

\* Variant of step 1/5 that starts the run over when the download fails.
LoadConfig_StartsOver ==
    /\ pc = "load_config"
    /\ \E ok \in BOOLEAN :
        /\ choices' = Chose(choices, "AutoConfig.from_pretrained", ok)
        /\ IF ok
           THEN /\ stages' = Append(stages, "LoadConfig")
                /\ log' = Append(log, Event("AutoConfig.from_pretrained", ok))
                /\ pc' = "load_model"
           ELSE /\ pc' = "mkdir"
                /\ UNCHANGED << stages, log >>
        /\ UNCHANGED << failed, result >>
    /\ UNCHANGED << process, first, written, seen, params, fs, exit_code, batchVars, cmLocals >>

\* Step 1/5
LoadConfig ==
    /\ pc = "load_config"
    /\ stages' = Append(stages, "LoadConfig")
    /\ \E ok \in BOOLEAN :
        /\ choices' = Chose(choices, "AutoConfig.from_pretrained", ok)
        /\ log' = Append(log, Event("AutoConfig.from_pretrained", ok))
        /\ IF ok
           THEN pc' = "load_model" /\ UNCHANGED << failed, result >>
           ELSE ReturnFalse("LoadConfig")
    /\ UNCHANGED << process, first, written, seen, params, fs, exit_code, batchVars, cmLocals >>

\* Variant of step 2/5 whose except branch logs the error but does not return.
LoadModelAndTokenizer_Continues ==
    /\ pc = "load_model"
    /\ stages' = Append(stages, "LoadModelAndTokenizer")
    /\ \E outcome \in {"ok", "model raises", "tokenizer raises"} :
        /\ choices' = Chose(choices, "from_pretrained", outcome)
        /\ log' = IF outcome = "model raises"
                  THEN Append(log, Event("AutoModel.from_pretrained", FALSE))
                  ELSE log \o << Event("AutoModel.from_pretrained", TRUE),
                                 Event("AutoTokenizer.from_pretrained", outcome = "ok") >>
        /\ pc' = "export"
        /\ UNCHANGED << failed, result >>
    /\ UNCHANGED << process, first, written, seen, params, fs, exit_code, batchVars, cmLocals >>

\* Step 2/5: the model, then the tokenizer, in one try block
LoadModelAndTokenizer ==
    /\ pc = "load_model"
    /\ stages' = Append(stages, "LoadModelAndTokenizer")
    /\ \E outcome \in {"ok", "model raises", "tokenizer raises"} :
        /\ choices' = Chose(choices, "from_pretrained", outcome)
        /\ log' = IF outcome = "model raises"
                  THEN Append(log, Event("AutoModel.from_pretrained", FALSE))
                  ELSE log \o << Event("AutoModel.from_pretrained", TRUE),
                                 Event("AutoTokenizer.from_pretrained", outcome = "ok") >>
        /\ IF outcome = "ok"
           THEN pc' = "export" /\ UNCHANGED << failed, result >>
           ELSE ReturnFalse("LoadModelAndTokenizer")
    /\ UNCHANGED << process, first, written, seen, params, fs, exit_code, batchVars, cmLocals >>

\* Variant of step 3/5 in which a quantized conversion never uses the delegated
\* export.
SelectExport_QuantizeManual ==
    /\ pc = "export"
    /\ stages' = Append(stages, "Export")
    /\ pc' = IF use_optimum /\ ort_available /\ ~quantize THEN "optimum" ELSE "manual"
    /\ UNCHANGED << process, first, choices, written, seen, params, fs, log, failed, result, exit_code, batchVars, cmLocals >>

\* Step 3/5: if use_optimum and ORTModelForTokenClassification is not None
SelectExport ==
    /\ pc = "export"
    /\ stages' = Append(stages, "Export")
    /\ pc' = IF use_optimum /\ ort_available THEN "optimum" ELSE "manual"
    /\ UNCHANGED << process, first, choices, written, seen, params, fs, log, failed, result, exit_code, batchVars, cmLocals >>

\* Variant of the delegated export whose except branch returns False instead of
\* trying the manual export.
OptimumExport_NoFallback ==
    /\ pc = "optimum"
    /\ \E ok \in BOOLEAN :
        /\ choices' = Chose(choices, "optimum", << ok, FALSE >>)
        /\ log' = Append(log, Event("optimum", ok))
        /\ written' = IF ok THEN Finished(written, OptimumFiles, Content("optimum", <<>>))
                      ELSE written
        /\ fs' = IF ok THEN WriteFiles(fs, OutputPath, OptimumFiles, Content("optimum", <<>>))
                 ELSE fs
        /\ IF ok
           THEN pc' = "save_tokenizer" /\ UNCHANGED << failed, result >>
           ELSE ReturnFalse("Export")
    /\ UNCHANGED << process, first, seen, params, stages, exit_code, batchVars, cmLocals >>

\* The delegated export. When it raises, the files it was writing may be left
\* behind; the exception is logged as a warning and the manual export is tried.
OptimumExport ==
    /\ pc = "optimum"
    /\ \E ok \in BOOLEAN, left \in BOOLEAN :
        /\ ok => ~left
        /\ choices' = Chose(choices, "optimum", << ok, left >>)
        /\ log' = Append(log, Event("optimum", ok))
        /\ written' = IF ok THEN Finished(written, OptimumFiles, Content("optimum", <<>>))
                      ELSE written
        /\ fs' = IF ok THEN WriteFiles(fs, OutputPath, OptimumFiles, Content("optimum", <<>>))
                 ELSE IF left THEN WriteFiles(fs, OutputPath, {"model.onnx"}, Content("partial", <<>>))
                 ELSE fs
        /\ pc' = IF ok THEN "save_tokenizer" ELSE "manual_fallback"
    /\ UNCHANGED << process, first, seen, params, stages, failed, result, exit_code, batchVars, cmLocals >>

\* Variant of _export_onnx_manual that reports False although the export wrote
\* the whole graph file.
export_onnx_manual_KeepsFile(fsv, d, ok, left) ==
    WriteFiles(fsv, d, {"model.onnx"}, Content("torch", <<>>))

\* _export_onnx_manual: torch.onnx.export to output_path / "model.onnx"; every
\* exception is caught and turned into False. A failed export may leave a
\* partly written file.
export_onnx_manual(fsv, d, ok, left) ==
    IF ok THEN WriteFiles(fsv, d, {"model.onnx"}, Content("torch", <<>>))
    ELSE IF left THEN WriteFiles(fsv, d, {"model.onnx"}, Content("partial", <<>>))
    ELSE fsv

\* Variant of the call with the test inverted: if _export_onnx_manual(...): return False
ManualExport_Inverted(at) ==
    /\ pc = at
    /\ \E ok \in BOOLEAN, left \in BOOLEAN :
        /\ ok => ~left
        /\ choices' = Chose(choices, "manual", << ok, left >>)
        /\ log' = Append(log, Event("manual", ok))
        /\ written' = IF ok THEN Finished(written, {"model.onnx"}, Content("torch", <<>>))
                      ELSE written
        /\ fs' = export_onnx_manual(fs, OutputPath, ok, left)
        /\ IF ~ok
           THEN pc' = "save_tokenizer" /\ UNCHANGED << failed, result >>
           ELSE ReturnFalse("Export")
    /\ UNCHANGED << process, first, seen, params, stages, exit_code, batchVars, cmLocals >>

\* if not _export_onnx_manual(model, tokenizer, output_path): return False
ManualExport(at) ==
    /\ pc = at
    /\ \E ok \in BOOLEAN, left \in BOOLEAN :
        /\ ok => ~left
        /\ choices' = Chose(choices, "manual", << ok, left >>)
        /\ log' = Append(log, Event("manual", ok))
        /\ written' = IF ok THEN Finished(written, {"model.onnx"}, Content("torch", <<>>))
                      ELSE written
        /\ fs' = export_onnx_manual(fs, OutputPath, ok, left)
        /\ IF ok
           THEN pc' = "save_tokenizer" /\ UNCHANGED << failed, result >>
           ELSE ReturnFalse("Export")
    /\ UNCHANGED << process, first, seen, params, stages, exit_code, batchVars, cmLocals >>

\* the call in the except branch of the delegated export
ManualFallback == ManualExport("manual_fallback")

\* the call in the else branch
ManualDirect == ManualExport("manual")

\* Variant of step 4/5 whose except branch logs the error and goes on to step 5/5.
SaveTokenizer_Swallows ==
    /\ pc = "save_tokenizer"
    /\ stages' = Append(stages, "SaveTokenizer")
    /\ \E ok \in BOOLEAN :
        /\ log' = Append(log, Event("tokenizer.save_pretrained", ok))
        /\ IF ok
           THEN \E names \in TokenizerFileSets :
                     /\ fs' = WriteFiles(fs, OutputPath, names, Content("tokenizer", <<>>))
                     /\ written' = Finished(written, names, Content("tokenizer", <<>>))
                     /\ choices' = Chose(choices, "tokenizer.save_pretrained", names)
           ELSE /\ choices' = Chose(choices, "tokenizer.save_pretrained", {})
                /\ UNCHANGED << fs, written >>
        /\ pc' = "save_metadata"
        /\ UNCHANGED << failed, result >>
    /\ UNCHANGED << process, first, seen, params, exit_code, batchVars, cmLocals >>

\* Step 4/5
SaveTokenizer ==
    /\ pc = "save_tokenizer"
    /\ stages' = Append(stages, "SaveTokenizer")
    /\ \E ok \in BOOLEAN :
        /\ log' = Append(log, Event("tokenizer.save_pretrained", ok))
        /\ IF ok
           THEN /\ \E names \in TokenizerFileSets :
                     /\ fs' = WriteFiles(fs, OutputPath, names, Content("tokenizer", <<>>))
                     /\ written' = Finished(written, names, Content("tokenizer", <<>>))
                     /\ choices' = Chose(choices, "tokenizer.save_pretrained", names)
                /\ pc' = "save_metadata"
                /\ UNCHANGED << failed, result >>
           ELSE /\ ReturnFalse("SaveTokenizer")
                /\ choices' = Chose(choices, "tokenizer.save_pretrained", {})
                /\ UNCHANGED << fs, written >>
    /\ UNCHANGED << process, first, seen, params, exit_code, batchVars, cmLocals >>

\* The metadata dictionary
Metadata(m) == << m, StrideOf(m), TRUE >>

\* Variant of step 5/5 with config.json and metadata.json in try blocks of their
\* own: metadata.json is written whether or not config.json was.
SaveMetadata_SeparateTry ==
    /\ pc = "save_metadata"
    /\ stages' = Append(stages, "SaveMetadata")
    /\ \E outcome \in {"dump config raises", "ok"} :
        LET c == IF outcome = "ok" THEN Content("config", <<>>) ELSE Content("partial", <<>>)
            md == Content("metadata", Metadata(model_name))
        IN
        /\ choices' = Chose(choices, "save", outcome)
        /\ log' = log \o << Event("config.json", outcome = "ok"), Event("metadata.json", TRUE) >>
        /\ fs' = WriteFiles(WriteFiles(fs, OutputPath, {"config.json"}, c),
                            OutputPath, {"metadata.json"}, md)
        /\ written' = Finished(IF outcome = "ok"
                               THEN Finished(written, {"config.json"}, c) ELSE written,
                               {"metadata.json"}, md)
        /\ IF outcome = "ok"
           THEN /\ result' = "True"
                /\ pc' = "return"
                /\ UNCHANGED failed
           ELSE ReturnFalse("SaveMetadata")
    /\ UNCHANGED << process, first, seen, params, exit_code, batchVars, cmLocals >>

\* Step 5/5: config.json, then metadata.json, in one try block. open(path, "w")
\* creates or truncates the file before anything is dumped into it.
SaveMetadata ==
    /\ pc = "save_metadata"
    /\ stages' = Append(stages, "SaveMetadata")
    /\ \E outcome \in {"open config raises", "dump config raises",
                       "open metadata raises", "dump metadata raises", "ok"} :
        LET withConfig == WriteFiles(fs, OutputPath, {"config.json"}, Content("config", <<>>))
            configDone == Finished(written, {"config.json"}, Content("config", <<>>))
        IN
        /\ choices' = Chose(choices, "save", outcome)
        /\ log' = IF outcome \in {"open config raises", "dump config raises"}
                  THEN Append(log, Event("config.json", FALSE))
                  ELSE log \o << Event("config.json", TRUE),
                                 Event("metadata.json", outcome = "ok") >>
        /\ fs' = CASE outcome = "open config raises" -> fs
                   [] outcome = "dump config raises" ->
                        WriteFiles(fs, OutputPath, {"config.json"}, Content("partial", <<>>))
                   [] outcome = "open metadata raises" -> withConfig
                   [] outcome = "dump metadata raises" ->
                        WriteFiles(withConfig, OutputPath, {"metadata.json"},
                                   Content("partial", <<>>))
                   [] outcome = "ok" ->
                        WriteFiles(withConfig, OutputPath, {"metadata.json"},
                                   Content("metadata", Metadata(model_name)))
        /\ written' = CASE outcome \in {"open config raises", "dump config raises"} -> written
                        [] outcome \in {"open metadata raises", "dump metadata raises"} ->
                             configDone
                        [] outcome = "ok" ->
                             Finished(configDone, {"metadata.json"},
                                      Content("metadata", Metadata(model_name)))
        /\ IF outcome = "ok"
           THEN /\ result' = "True"
                /\ pc' = "return"
                /\ UNCHANGED failed
           ELSE ReturnFalse("SaveMetadata")
    /\ UNCHANGED << process, first, seen, params, exit_code, batchVars, cmLocals >>

-----------------------------------------------------------------------------
(* convert_model.py *)

\* __main__: model_name = sys.argv[1]; output_dir = sys.argv[2] or None
ModelMain ==
    /\ pc = "cm_main"
    /\ model_name' = args.model.v
    /\ output_dir' = args.output
    /\ pc' = "cm_import"
    /\ UNCHANGED << process, first, choices, written, seen, use_optimum, quantize, fs, stages, log, failed, result,
                    exit_code, batchVars, cmLocals >>

\* sys.exit(1) of a failed step
Exit1 ==
    /\ pc' = "exit"
    /\ exit_code' = 1

ModelImport ==
    /\ pc = "cm_import"
    /\ \E ok \in BOOLEAN :
        IF ok THEN pc' = "cm_resolve" /\ UNCHANGED exit_code ELSE Exit1
    /\ UNCHANGED << process, first, choices, written, seen, params, fs, stages, log, failed, result, batchVars, cmLocals >>

\* Default output directory ./models/<model name with "/" replaced by "_">, then
\* mkdir(parents=True, exist_ok=True); an exception of mkdir ends the process.
ModelResolve ==
    /\ pc = "cm_resolve"
    /\ output_dir' = IF ~output_dir.some
                     THEN Some(ModelsPrefix \o ReplaceSlash(model_name))
                     ELSE output_dir
    /\ \E ok \in BOOLEAN :
        IF ok
        THEN /\ fs' = MkDir(fs, PathStr(output_dir'.v))
             /\ pc' = "cm_load"
             /\ UNCHANGED exit_code
        ELSE Exit1 /\ UNCHANGED fs
    /\ UNCHANGED << process, first, choices, written, seen, model_name, use_optimum, quantize, stages, log, failed,
                    result, batchVars, cmLocals >>

\* Step 1/4
ModelLoad ==
    /\ pc = "cm_load"
    /\ \E ok \in BOOLEAN :
        IF ok THEN pc' = "cm_save" /\ UNCHANGED exit_code ELSE Exit1
    /\ UNCHANGED << process, first, choices, written, seen, params, fs, stages, log, failed, result, batchVars, cmLocals >>

\* Step 2/4
ModelSave ==
    /\ pc = "cm_save"
    /\ \E ok \in BOOLEAN :
        IF ok
        THEN /\ fs' = WriteFiles(fs, OutputPath, OptimumFiles, Content("optimum", <<>>))
             /\ pc' = "cm_tokenizer"
             /\ UNCHANGED exit_code
        ELSE Exit1 /\ UNCHANGED fs
    /\ UNCHANGED << process, first, choices, written, seen, params, stages, log, failed, result, batchVars, cmLocals >>

\* Step 3/4
ModelTokenizer ==
    /\ pc = "cm_tokenizer"
    /\ \E ok \in BOOLEAN :
        IF ok
        THEN /\ \E names \in TokenizerFileSets :
                  fs' = WriteFiles(fs, OutputPath, names, Content("tokenizer", <<>>))
             /\ pc' = "cm_config"
             /\ UNCHANGED exit_code
        ELSE Exit1 /\ UNCHANGED fs
    /\ UNCHANGED << process, first, choices, written, seen, params, stages, log, failed, result, batchVars, cmLocals >>

\* Step 4/4
ModelConfig ==
    /\ pc = "cm_config"
    /\ \E ok \in BOOLEAN :
        IF ok
        THEN /\ fs' = WriteFiles(fs, OutputPath, {"config.json"}, Content("config", <<>>))
             /\ pc' = "cm_verify"
             /\ UNCHANGED exit_code
        ELSE Exit1 /\ UNCHANGED fs
    /\ UNCHANGED << process, first, choices, written, seen, params, stages, log, failed, result, batchVars, cmLocals >>

essential_files == << "model.onnx", "config.json", "tokenizer_config.json" >>

vocab_files == << "vocab.txt", "vocab.json", "sentencepiece.bpe.model", "tokenizer.model" >>

additional_files ==
    << "merges.txt", "tokenizer.json", "special_tokens_map.json", "added_tokens.json" >>

\* Variant of the loop that assigns the flag on every iteration, so that only
\* the last file decides.
RECURSIVE CheckEssential_LastOnly(_, _, _)
CheckEssential_LastOnly(present, i, acc) ==
    IF i > Len(essential_files) THEN acc
    ELSE CheckEssential_LastOnly(present, i + 1, essential_files[i] \in present)

\* for file in essential_files: if not exists: all_essential_present = False
RECURSIVE CheckEssential(_, _, _)
CheckEssential(present, i, acc) ==
    IF i > Len(essential_files) THEN acc
    ELSE CheckEssential(present, i + 1,
                        IF essential_files[i] \in present THEN acc ELSE FALSE)

\* for vocab_file in vocab_files: if exists: found_vocab_files.append(vocab_file)
RECURSIVE FindVocab(_, _, _)
FindVocab(present, i, acc) ==
    IF i > Len(vocab_files) THEN acc
    ELSE FindVocab(present, i + 1,
                   IF vocab_files[i] \in present THEN Append(acc, vocab_files[i]) ELSE acc)

InList(x, list) == \E i \in 1..Len(list) : list[i] = x

\* Variant with the first two branches swapped.
TokenizerType_JsonFirst(found) ==
    IF InList("vocab.json", found) THEN "RoBERTa/GPT-2-style"
    ELSE IF InList("vocab.txt", found) THEN "BERT-style"
    ELSE IF InList("sentencepiece.bpe.model", found) \/ InList("tokenizer.model", found)
         THEN "SentencePiece"
    ELSE "Unknown"

\* Determine tokenizer type for user information
TokenizerType(found) ==
    IF InList("vocab.txt", found) THEN "BERT-style"
    ELSE IF InList("vocab.json", found) THEN "RoBERTa/GPT-2-style"
    ELSE IF InList("sentencepiece.bpe.model", found) \/ InList("tokenizer.model", found)
         THEN "SentencePiece"
    ELSE "Unknown"

\* Variant in which the file check only reports.
Verdict_Advisory(essential, vocab) == 0

\* The verdict: the function returns (status 0) or sys.exit(1)
Verdict(essential, vocab) == IF essential /\ vocab THEN 0 ELSE 1

\* Verify files
ModelVerify ==
    /\ pc = "cm_verify"
    /\ LET present == Files(fs, OutputPath)
           found == FindVocab(present, 1, <<>>)
       IN  /\ all_essential_present' = CheckEssential(present, 1, TRUE)
           /\ found_vocab_files' = found
           /\ vocab_file_present' = (found # <<>>)
           /\ tokenizer_type' = TokenizerType(found)
    /\ exit_code' = Verdict(all_essential_present', vocab_file_present')
    /\ pc' = "exit"
    /\ UNCHANGED << process, first, choices, written, seen, params, fs, stages, log, failed, result, batchVars >>

-----------------------------------------------------------------------------
(* Specifications *)

\* One process of either script that converts at most one model.
Next ==
    \/ MainListModels
    \/ MainNoModel
    \/ MainConvert
    \/ MainExit
    \/ MakeOutputDir
    \/ LoadConfig
    \/ LoadModelAndTokenizer
    \/ SelectExport
    \/ OptimumExport
    \/ ManualFallback
    \/ ManualDirect
    \/ SaveTokenizer
    \/ SaveMetadata
    \/ ModelMain
    \/ ModelImport
    \/ ModelResolve
    \/ ModelLoad
    \/ ModelSave
    \/ ModelTokenizer
    \/ ModelConfig
    \/ ModelVerify

Spec == Init /\ [][Next]_vars

\* Command lines for the runs whose termination is checked.
LiveArgs ==
    { Args(Some(m), o, n, FALSE, FALSE, FALSE) :
        m \in {ID_modernbert_base, M_other}, o \in {None, Some(O_out)}, n \in BOOLEAN }
    \cup { Args(None, None, FALSE, FALSE, FALSE, TRUE),
           Args(None, None, FALSE, FALSE, FALSE, FALSE) }

InitLive == InitNeural /\ args \in LiveArgs

\* One process of convert_neural_models.py that converts at most one model.
NextLive ==
    \/ MainListModels
    \/ MainNoModel
    \/ MainConvert
    \/ MainExit
    \/ MakeOutputDir
    \/ LoadConfig
    \/ LoadModelAndTokenizer
    \/ SelectExport
    \/ OptimumExport
    \/ ManualFallback
    \/ ManualDirect
    \/ SaveTokenizer
    \/ SaveMetadata

\* The script is one sequential thread: as long as a step is possible, and the
\* call it waits for returns or raises, the step is taken.
SpecLive == InitLive /\ [][NextLive]_vars /\ WF_vars(NextLive)

\* convert_neural_models.py --all
NextAll ==
    \/ MainAll
    \/ AllCall
    \/ AllNext
    \/ AllDone
    \/ MakeOutputDir
    \/ LoadConfig
    \/ LoadModelAndTokenizer
    \/ SelectExport
    \/ OptimumExport
    \/ ManualFallback
    \/ ManualDirect
    \/ SaveTokenizer
    \/ SaveMetadata

SpecAll == InitAll /\ [][NextAll]_vars

\* The file check of convert_model as a function of the directory's contents:
\* every set of the file names it looks at.
CheckedFiles ==
    { essential_files[i] : i \in 1..Len(essential_files) }
    \cup { vocab_files[i] : i \in 1..Len(vocab_files) }
    \cup { additional_files[i] : i \in 1..Len(additional_files) }

InitVerify ==
    /\ script = "convert_model"
    /\ args = Args(Some(M_other), Some(O_out), FALSE, FALSE, FALSE, FALSE)
    /\ ort_available = TRUE
    /\ pc = "cm_verify"
    /\ model_name = M_other
    /\ output_dir = Some(O_out)
    /\ use_optimum = TRUE
    /\ quantize = FALSE
    /\ \E present \in SUBSET CheckedFiles :
          fs = [d \in {PathStr(O_out)} |-> [f \in present |-> Content("old", <<>>)]]
    /\ fs0 = fs
    /\ stages = <<>>
    /\ log = <<>>
    /\ failed = "none"
    /\ result = "none"
    /\ exit_code = -1
    /\ idx = 0
    /\ calls = <<>>
    /\ results = <<>>
    /\ all_essential_present = TRUE
    /\ vocab_file_present = FALSE
    /\ found_vocab_files = <<>>
    /\ tokenizer_type = "unset"
    /\ written = NoFiles
    /\ seen = {}
    /\ choices = NoChoices
    /\ first = NoFirst

NextVerify == ModelVerify

SpecVerify == InitVerify /\ [][NextVerify]_vars

-----------------------------------------------------------------------------
(* Two runs of convert_model_to_onnx that differ only in quantize *)

\* The second run of the pair: the same call with quantize flipped, on the disk
\* the first run started on.
Rerun ==
    /\ pc = "return"
    /\ ~first.done
    /\ first' = [done |-> TRUE, stages |-> stages, log |-> log, result |-> result,
                 written |-> written, files |-> fs, choices |-> choices]
    /\ fs' = fs0
    /\ quantize' = ~quantize
    /\ EnterRun
    /\ UNCHANGED << script, args, ort_available, fs0, seen, model_name, output_dir,
                    use_optimum, exit_code, batchVars, cmLocals >>

\* In the second run every collaborator call made by the first run has the
\* outcome it had there.
Replay ==
    first.done =>
        \A k \in DOMAIN choices' \cap DOMAIN first.choices : choices'[k] = first.choices[k]

InitPair == InitNeural /\ Truthy(args.model)

NextPair ==
    \/ MainConvert
    \/ Rerun
    \/ MakeOutputDir /\ Replay
    \/ LoadConfig /\ Replay
    \/ LoadModelAndTokenizer /\ Replay
    \/ SelectExport /\ Replay
    \/ OptimumExport /\ Replay
    \/ ManualFallback /\ Replay
    \/ ManualDirect /\ Replay
    \/ SaveTokenizer /\ Replay
    \/ SaveMetadata /\ Replay

SpecPair == InitPair /\ [][NextPair]_vars

-----------------------------------------------------------------------------
(* Properties of one run of convert_model_to_onnx *)

StageOrder ==
    << "LoadConfig", "LoadModelAndTokenizer", "Export", "SaveTokenizer", "SaveMetadata" >>

IsPrefix(a, b) == Len(a) <= Len(b) /\ a = SubSeq(b, 1, Len(a))

Logged(ev, ok) == \E i \in 1..Len(log) : log[i] = Event(ev, ok)

Count(ev) == Cardinality({ i \in 1..Len(log) : log[i].ev = ev })

\* The stage's work was done: every call it needs returned.
StageSucceeded(st) ==
    CASE st = "LoadConfig" -> Logged("AutoConfig.from_pretrained", TRUE)
      [] st = "LoadModelAndTokenizer" ->
            Logged("AutoModel.from_pretrained", TRUE)
            /\ Logged("AutoTokenizer.from_pretrained", TRUE)
      [] st = "Export" -> Logged("optimum", TRUE) \/ Logged("manual", TRUE)
      [] st = "SaveTokenizer" -> Logged("tokenizer.save_pretrained", TRUE)
      [] st = "SaveMetadata" -> Logged("config.json", TRUE) /\ Logged("metadata.json", TRUE)

\* A call of the stage raised and nothing stands in for it.
StageRaised(st) ==
    CASE st = "LoadConfig" -> Logged("AutoConfig.from_pretrained", FALSE)
      [] st = "LoadModelAndTokenizer" ->
            Logged("AutoModel.from_pretrained", FALSE)
            \/ Logged("AutoTokenizer.from_pretrained", FALSE)
      [] st = "Export" -> Logged("manual", FALSE)
      [] st = "SaveTokenizer" -> Logged("tokenizer.save_pretrained", FALSE)
      [] st = "SaveMetadata" -> Logged("config.json", FALSE) \/ Logged("metadata.json", FALSE)

Returned == pc \in {"return", "exit"}

\* C1: the stages of a run are entered only in the order LoadConfig,
\* LoadModelAndTokenizer, Export, SaveTokenizer, SaveMetadata; a stage is
\* entered only if every earlier stage succeeded; once a stage has failed it is
\* the last stage entered, no call is made a second time, and the run has
\* returned False.
C1_StagesInOrderStopAtFirstFailure ==
    /\ IsPrefix(stages, StageOrder)
    /\ \A i \in 1..Len(stages) - 1 : StageSucceeded(stages[i]) /\ ~StageRaised(stages[i])
    /\ \A i \in 1..Len(stages) :
          StageRaised(stages[i]) =>
             /\ i = Len(stages)
             /\ failed = stages[i]
             /\ result = "False"
             /\ Returned
    /\ failed # "none" => stages # <<>> /\ StageRaised(stages[Len(stages)])
    /\ \A i, j \in 1..Len(log) : log[i].ev = log[j].ev => i = j

\* A run that stopped at its fourth stage.
C1_Witness ==
    /\ failed = "SaveTokenizer"
    /\ stages = SubSeq(StageOrder, 1, 4)
    /\ result = "False"

ExportOver ==
    /\ \E i \in 1..Len(stages) : stages[i] = "Export"
    /\ pc \notin {"optimum", "manual", "manual_fallback"}

\* C2: in a run the manual export is attempted at most once and the delegated
\* export at most once, the latter only when it is selected and available; when
\* the Export stage of the run is over, the manual export was attempted exactly
\* once if the delegated export raised or was not selected or not available,
\* and never if the delegated export succeeded.  (A run that fails before the
\* Export stage attempts neither.)
C2_ManualExportAtMostOnce ==
    /\ Count("manual") <= 1
    /\ Count("optimum") <= 1
    /\ Count("optimum") = 1 => use_optimum /\ ort_available
    /\ (\A i \in 1..Len(stages) : stages[i] # "Export") =>
          Count("manual") = 0 /\ Count("optimum") = 0
    /\ ExportOver =>
          /\ Count("optimum") = (IF use_optimum /\ ort_available THEN 1 ELSE 0)
          /\ Logged("optimum", FALSE) => Count("manual") = 1
          /\ ~(use_optimum /\ ort_available) => Count("manual") = 1
          /\ Logged("optimum", TRUE) => Count("manual") = 0

\* The delegated export raised, the manual one was tried once, and the run ended.
C2_Witness ==
    /\ Logged("optimum", FALSE)
    /\ Count("manual") = 1
    /\ pc = "return"

\* C3: the Export stage fails only if the manual export was attempted and
\* failed; whenever the manual export succeeded the stage did not fail and the
\* run went on to SaveTokenizer.
C3_ExportFailsOnlyIfManualFails ==
    /\ failed = "Export" => Logged("manual", FALSE)
    /\ (ExportOver /\ failed # "Export") =>
          pc = "save_tokenizer" \/ \E i \in 1..Len(stages) : stages[i] = "SaveTokenizer"
    /\ Logged("manual", TRUE) =>
          /\ failed # "Export"
          /\ pc = "save_tokenizer" \/ \E i \in 1..Len(stages) : stages[i] = "SaveTokenizer"

\* The manual export stood in for a delegated export that raised.
C3_Witness ==
    /\ Logged("optimum", FALSE)
    /\ Logged("manual", TRUE)
    /\ \E i \in 1..Len(stages) : stages[i] = "SaveTokenizer"

-----------------------------------------------------------------------------
(* Properties of the artifact set *)

RequiredFiles == {"model.onnx", "config.json", "tokenizer_config.json"}

VocabularyFiles == {"vocab.txt", "vocab.json", "sentencepiece.bpe.model", "tokenizer.model"}

OptionalFiles == {"merges.txt", "tokenizer.json", "special_tokens_map.json", "added_tokens.json"}

ArtifactSetComplete(present) ==
    /\ RequiredFiles \subseteq present
    /\ present \cap VocabularyFiles # {}

OutputFiles == Files(fs, OutputPath)

\* The file check of convert_model has run.
Verified == tokenizer_type # "unset"

C5_VerdictIffRequiredAndVocabulary ==
    pc = "exit" =>
        /\ exit_code \in {0, 1}
        /\ exit_code = 0 <=> ArtifactSetComplete(OutputFiles)
        /\ exit_code = 0 <=> ArtifactSetComplete(OutputFiles \ OptionalFiles)
        /\ all_essential_present <=> RequiredFiles \subseteq OutputFiles
        /\ vocab_file_present <=> OutputFiles \cap VocabularyFiles # {}

\* A pass with a SentencePiece vocabulary and no optional file.
C5_Witness ==
    /\ pc = "exit"
    /\ exit_code = 0
    /\ OutputFiles = RequiredFiles \cup {"tokenizer.model"}

ExpectedFamily(present) ==
    CASE "vocab.txt" \in present -> "BERT-style"
      [] "vocab.txt" \notin present /\ "vocab.json" \in present -> "RoBERTa/GPT-2-style"
      [] {"vocab.txt", "vocab.json"} \cap present = {}
         /\ {"sentencepiece.bpe.model", "tokenizer.model"} \cap present # {} -> "SentencePiece"
      [] present \cap VocabularyFiles = {} -> "Unknown"

\* C6: the tokenizer family depends only on which vocabulary files are
\* present, with priority vocab.txt > vocab.json > SentencePiece files >
\* Unknown; it is Unknown exactly when no vocabulary file is present, so a
\* passing verdict never has family Unknown.
C6_FamilyByVocabularyPriority ==
    pc = "exit" =>
        /\ tokenizer_type = ExpectedFamily(OutputFiles \cap VocabularyFiles)
        /\ tokenizer_type = "Unknown" <=> OutputFiles \cap VocabularyFiles = {}
        /\ exit_code = 0 => tokenizer_type # "Unknown"

\* Three vocabulary files at once: the BERT-style one wins.
C6_Witness ==
    /\ pc = "exit"
    /\ {"vocab.txt", "vocab.json", "tokenizer.model"} \subseteq OutputFiles
    /\ tokenizer_type = "BERT-style"

FilesBefore == IF OutputPath \in DOMAIN fs0 THEN fs0[OutputPath] ELSE NoFiles

\* C7 as stated: when the Export stage fails, no model.onnx exists in the
\* output directory.
C7_NoGraphFileAfterExportFailure ==
    failed = "Export" => "model.onnx" \notin OutputFiles

\* C7, amended: when the manual export raises (after a delegated export that
\* raised, or alone), the Export stage fails, the run returns False without
\* entering a later stage, and no export of the run has completed a graph file.
\* The run removes nothing: a model.onnx that was in the output directory
\* before the run, or a partly written one left by a failing export call, is
\* still there.
C7_ExportFailureCompletesNoGraphFile ==
    failed = "Export" =>
        /\ result = "False"
        /\ stages = SubSeq(StageOrder, 1, 3)
        /\ Logged("manual", FALSE)
        /\ ~Logged("manual", TRUE)
        /\ ~Logged("optimum", TRUE)
        /\ DOMAIN FilesBefore \subseteq OutputFiles
        /\ OutputFiles \ DOMAIN FilesBefore \subseteq {"model.onnx"}
        /\ "model.onnx" \in OutputFiles =>
              fs[OutputPath]["model.onnx"].kind \in {"old", "partial"}
        /\ \A f \in DOMAIN FilesBefore \ {"model.onnx"} : fs[OutputPath][f] = FilesBefore[f]

\* Both exports raised and the graph file of an earlier conversion is still
\* in the directory.
C7_Witness ==
    /\ failed = "Export"
    /\ Logged("optimum", FALSE)
    /\ "model.onnx" \in OutputFiles
    /\ fs[OutputPath]["model.onnx"].kind = "old"

-----------------------------------------------------------------------------
(* Properties of output resolution, batch conversion and the stride *)

\* t is a suffix of s
IsSuffix(t, s) == \E k \in 0..Len(s) : SubSeq(s, k + 1, Len(s)) = t

RegistryMatches(m) ==
    { i \in 1..Len(DEFAULT_MODELS) :
        DEFAULT_MODELS[i][2] = m \/ IsSuffix(DEFAULT_MODELS[i][1], m) }

FirstMatch(m) == CHOOSE i \in RegistryMatches(m) : \A j \in RegistryMatches(m) : i <= j

\* The part of m after its last "/" (all of m when it has none)
LastPart(m) ==
    CHOOSE t \in { SubSeq(m, k + 1, Len(m)) : k \in 0..Len(m) } :
        /\ \A i \in 1..Len(t) : t[i] # "/"
        /\ t = m \/ IsSuffix(<<"/">> \o t, m)

\* The three rules, for a given reading of "an explicit output"
ResolvedByRules(m, o, explicit) ==
    IF explicit THEN o.v
    ELSE IF RegistryMatches(m) # {} THEN ModelsPrefix \o DEFAULT_MODELS[FirstMatch(m)][1]
    ELSE ModelsPrefix \o LastPart(m)

\* main has resolved the output directory of a single conversion.
Resolved ==
    /\ script = "convert_neural_models"
    /\ ~args.all
    /\ ~args.list_models
    /\ Truthy(args.model)
    /\ pc # "main"

\* C8 as stated: an --output that was given is used verbatim; otherwise the
\* first registry entry whose identifier equals the model identifier or whose
\* short name is a suffix of it gives ./models/<short name>; otherwise the
\* result is ./models/<last segment of the model identifier>.
C8_ExplicitOutputVerbatim ==
    Resolved =>
        /\ output_dir.some
        /\ output_dir.v = ResolvedByRules(args.model.v, args.output, args.output.some)

\* C8, amended: the three rules hold with "explicit" read as "given and not
\* empty": an --output given as the empty string is treated like an absent one
\* and falls through to the registry and last-segment rules.  The result
\* depends on the model identifier and --output only, not on the disk.
C8_NonEmptyOutputVerbatim ==
    Resolved =>
        /\ output_dir.some
        /\ output_dir.v = ResolvedByRules(args.model.v, args.output, Truthy(args.output))
        /\ model_name = args.model.v

\* An empty --output with an identifier whose last segment ends in a short
\* name without being one, resolved while the directory already exists.
C8_Witness ==
    /\ Resolved
    /\ args.output = Some(<<>>)
    /\ args.model.v = M_suffix_distil
    /\ output_dir.v = ModelsPrefix \o N_distilbert
    /\ PathStr(output_dir.v) \in DOMAIN fs0

\* The request convert_all_defaults makes for the i-th registry entry; the
\* output directory is compared as a path (str(Path("./models") / name) is
\* spelled without the leading "./").
RegistryDirs ==
    [i \in 1..Len(DEFAULT_MODELS) |-> PathStr(ModelsPrefix \o DEFAULT_MODELS[i][1])]

IsRequestFor(call, i) ==
    /\ call[1] = DEFAULT_MODELS[i][2]
    /\ call[3] = TRUE
    /\ call[4] = FALSE
    /\ PathStr(call[2]) = RegistryDirs[i]

\* C9: convert_all_defaults runs the pipeline once per entry of DEFAULT_MODELS,
\* one after the other in registry order, the i-th run with the request
\* (identifier of entry i, ./models/<short name of entry i>, delegated export
\* preferred, quantize false), whatever the earlier runs returned or raised;
\* when it is done every entry has had its run.
C9_BatchRunsEveryEntryOnce ==
    /\ Len(calls) <= Len(DEFAULT_MODELS)
    /\ \A i \in 1..Len(calls) : IsRequestFor(calls[i], i)
    /\ Len(results) <= Len(calls)
    /\ Len(calls) <= Len(results) + 1
    /\ pc \in {"all_loop"} => Len(calls) = Len(results) /\ idx = Len(calls) + 1
    /\ pc = "exit" =>
          /\ Len(calls) = Len(DEFAULT_MODELS)
          /\ Len(results) = Len(DEFAULT_MODELS)
          /\ exit_code = 0

\* A batch whose first run raised and whose second run returned False, and
\* which still made its third run.
C9_Witness ==
    /\ pc = "exit"
    /\ results = << "raised", "False", "True" >>
    /\ Len(calls) = 3

RegisteredStride(m) ==
    IF \E i \in 1..Len(MODEL_STRIDES) : MODEL_STRIDES[i][1] = m
    THEN MODEL_STRIDES[CHOOSE i \in 1..Len(MODEL_STRIDES) : MODEL_STRIDES[i][1] = m][2]
    ELSE 256

\* C10: the stride in a metadata.json written by convert_model_to_onnx is the
\* MODEL_STRIDES value of the model identifier when that identifier is
\* registered and 256 otherwise; a successful run has written it.
C10_StrideFromRegistryOrDefault ==
    /\ \A d \in DOMAIN fs :
          ("metadata.json" \in DOMAIN fs[d] /\ fs[d]["metadata.json"].kind = "metadata") =>
              /\ d = OutputPath
              /\ fs[d]["metadata.json"].data[1] = model_name
              /\ fs[d]["metadata.json"].data[2] = RegisteredStride(model_name)
    /\ (script = "convert_neural_models" /\ result = "True") =>
          /\ "metadata.json" \in OutputFiles
          /\ fs[OutputPath]["metadata.json"].kind = "metadata"

\* A registered identifier whose stride is not the default.
C10_Witness ==
    /\ result = "True"
    /\ model_name = ID_modernbert_large
    /\ fs[OutputPath]["metadata.json"].data[2] = 512

-----------------------------------------------------------------------------
(* Failure paths of convert_model_to_onnx *)

\* C11 as stated: when a run of convert_model_to_onnx fails, every file that an
\* earlier successful stage or sub-step of the run finished writing is still in
\* the output directory with the content it was written with.
C11_EarlierArtifactsUnchangedOnFailure ==
    failed # "none" =>
        \A f \in DOMAIN written :
            f \in OutputFiles /\ fs[OutputPath][f] = written[f]

StageNames == { StageOrder[i] : i \in 1..Len(StageOrder) }

\* What a caller has in hand after a run: the value it got, with the stage that
\* failed next to it.
Outcomes == seen \cup (IF pc = "return" THEN {<< result, failed >>} ELSE {})

-----------------------------------------------------------------------------
(* The quantize parameter *)

-----------------------------------------------------------------------------
(* metadata.json *)

\* Position in the log of the first call ev that had outcome ok; 0 when there
\* is none.
FirstAt(ev, ok) ==
    IF Logged(ev, ok) THEN CHOOSE i \in 1..Len(log) : log[i] = Event(ev, ok) /\
                                \A j \in 1..(i - 1) : log[j] # Event(ev, ok)
    ELSE 0

Before(ev, i) == FirstAt(ev, TRUE) > 0 /\ FirstAt(ev, TRUE) < i

\* C14: in a run of convert_model_to_onnx the write of metadata.json is
\* attempted at most once, and only after an export, the save of the tokenizer
\* and the write of config.json succeeded in that run; a metadata.json the run
\* finished writing carries onnx_converted = true, lies in the output directory
\* next to a graph file that an export of the same run wrote, and is the only
\* way the metadata.json of the directory changes; a run returns True only if
\* it finished writing metadata.json.
C14_MetadataOnceAfterExport ==
    script = "convert_neural_models" =>
        /\ Count("metadata.json") <= 1
        /\ \A i \in 1..Len(log) :
              log[i].ev = "metadata.json" =>
                  /\ Before("optimum", i) \/ Before("manual", i)
                  /\ Before("tokenizer.save_pretrained", i)
                  /\ Before("config.json", i)
        /\ "metadata.json" \in DOMAIN written =>
              /\ Logged("metadata.json", TRUE)
              /\ written["metadata.json"].kind = "metadata"
              /\ written["metadata.json"].data[3] = TRUE
              /\ fs[OutputPath]["metadata.json"] = written["metadata.json"]
              /\ "model.onnx" \in DOMAIN written
              /\ written["model.onnx"].kind \in {"optimum", "torch"}
              /\ fs[OutputPath]["model.onnx"] = written["model.onnx"]
        /\ (pc \in {"return", "exit"} /\ OutputPath \in DOMAIN fs /\ Count("metadata.json") = 0) =>
              /\ "metadata.json" \in OutputFiles <=> "metadata.json" \in DOMAIN FilesBefore
              /\ "metadata.json" \in OutputFiles =>
                    fs[OutputPath]["metadata.json"] = FilesBefore["metadata.json"]
        /\ result = "True" => "metadata.json" \in DOMAIN written

\* A successful run whose delegated export failed and whose manual export
\* succeeded, into a directory that held the metadata.json of an earlier run.
C14_Witness ==
    /\ result = "True"
    /\ Logged("optimum", FALSE)
    /\ Logged("manual", TRUE)
    /\ "metadata.json" \in DOMAIN FilesBefore
    /\ fs[OutputPath]["metadata.json"].data = Metadata(model_name)

-----------------------------------------------------------------------------
(* Termination of a run *)

\* Positions inside a run of convert_model_to_onnx.
RunPcs ==
    { "mkdir", "load_config", "load_model", "export", "optimum", "manual",
      "manual_fallback", "save_tokenizer", "save_metadata" }

\* The result is produced by the step that ends the run, and by no other.
ResultOnce ==
    result' # result => (pc \in RunPcs /\ pc' = "return" /\ result = "none")

\* After the end of the run no stage is entered, no call is made and nothing is
\* written.
NoStepAfterEnd ==
    pc \in {"return", "exit"} =>
        /\ pc' \notin RunPcs
        /\ UNCHANGED << stages, log, failed, result, fs, written >>

-----------------------------------------------------------------------------
(* The stride of a model matched through the registry *)

\* C16 as stated: when main resolved the output directory through a registry
\* entry, matched by identifier or by short name as a suffix, the stride in the
\* metadata.json that the run wrote is the stride registered in MODEL_STRIDES
\* for the identifier of that entry.
C16_StrideOfMatchedRegistryEntry ==
    (/\ Resolved
     /\ ~Truthy(args.output)
     /\ RegistryMatches(model_name) # {}
     /\ "metadata.json" \in DOMAIN written) =>
        /\ OutputPath = RegistryDirs[FirstMatch(model_name)]
        /\ written["metadata.json"].data[2] =
              RegisteredStride(DEFAULT_MODELS[FirstMatch(model_name)][2])

====
